---- MODULE Spec2Model ----
(***************************************************************************)
(* Randomized PCA / kernel PCA engine of flashpca (src/randompca.cpp).     *)
(*                                                                         *)
(* Four specifications share this module:                                  *)
(*   Spec      RandomPCA::pca as a sequence of stages on one engine        *)
(*             object that is invoked again and again; matrices are        *)
(*             carried by shape, result fields also by the invocation      *)
(*             that wrote them, and the outcome of the convergence test    *)
(*             is a nondeterministic choice;                               *)
(*   SpecLoop  the subspace-iteration loop of pca with the content of Y    *)
(*             and Yn, diff and tol;                                       *)
(*   SpecSmall pca_small on a diagonal small matrix B;                     *)
(*   SpecBand  the RBF bandwidth selection of pca with median_dist.        *)
(*                                                                         *)
(* Results of the external linear-algebra library that depend on           *)
(* floating-point data are nondeterministic choices.                       *)
(***************************************************************************)
EXTENDS Integers, Sequences, FiniteSets, TLC

\* ---------------------------------------------------------------- bounds
MaxRows  == 2      \* Spec: X.rows() ranges over 2..MaxRows
MaxCols  == 3      \* Spec: X.cols() ranges over 2..MaxCols
MaxNdim  == 2      \* Spec: ndim ranges over 1..MaxNdim
MaxExtra == 1      \* Spec: nextra ranges over 0..MaxExtra
MaxIter  == 2      \* Spec, SpecLoop: maxiter ranges over 0..MaxIter
MaxVal   == 2      \* SpecLoop: abstract values of the iterate: 0..MaxVal
MaxTol   == 2      \* SpecLoop: tol ranges over 0..MaxTol
MaxSize  == 3      \* SpecSmall: B is s x s with s in 0..MaxSize
MaxB     == 2      \* SpecSmall: entries of the diagonal of B: 0..MaxB
MaxBandRows == 3   \* SpecBand: X.rows() ranges over 1..MaxBandRows
MaxCoord    == 2   \* SpecBand: entries of X: 0..MaxCoord
MaxSample   == 4   \* SpecBand: rbf_sample ranges over 1..MaxSample
MaxSigma    == 1   \* SpecBand: sigma ranges over 0..MaxSigma
DrawDen     == 4   \* SpecBand: dist(rng) returns u / DrawDen, u in 0..DrawDen-1

\* ------------------------------------------------------------- constants
KERNEL_LINEAR    == "KERNEL_LINEAR"
KERNEL_RBF       == "KERNEL_RBF"
KERNEL_OTHER     == "KERNEL_OTHER"   \* any other int passed as kernel
METHOD_SVD       == "METHOD_SVD"
METHOD_EIGEN     == "METHOD_EIGEN"
STANDARDIZE_NONE == "STANDARDIZE_NONE"
STANDARDIZE_SD   == "STANDARDIZE_SD" \* any stand_method other than NONE

Kernels      == {KERNEL_LINEAR, KERNEL_RBF, KERNEL_OTHER}
Methods      == {METHOD_SVD, METHOD_EIGEN}
StandMethods == {STANDARDIZE_NONE, STANDARDIZE_SD}

\* ------------------------------------------------------- matrix shapes
Mat(r, c)    == [rows |-> r, cols |-> c]
Empty        == Mat(0, 0)                    \* default-constructed MatrixXd
Transpose(A) == Mat(A.cols, A.rows)
Mul(A, B)    == Mat(A.rows, B.cols)          \* A * B
Min(a, b)    == IF a < b THEN a ELSE b

\* result field of the engine: shape and the invocation that wrote the
\* content ("none": never written, "cur": the invocation in progress or
\* just returned, "old": an earlier invocation)
Field(r, c, g) == [rows |-> r, cols |-> c, gen |-> g]
Age(F)         == [F EXCEPT !.gen = IF @ = "cur" THEN "old" ELSE @]

\* ------------------------------------------------------- unsigned int
\* 32 bits, kept as <<high half, low half>>
UIntHalf == 65536
ToUInt(n) == <<(n \div UIntHalf) % UIntHalf, n % UIntHalf>>
UDec(u) == IF u[2] > 0 THEN <<u[1], u[2] - 1>>
                       ELSE <<(u[1] - 1) % UIntHalf, UIntHalf - 1>>
UInc(u) == IF u[2] < UIntHalf - 1 THEN <<u[1], u[2] + 1>>
                                  ELSE <<(u[1] + 1) % UIntHalf, 0>>
\* u used as an index of a vector of n entries
InRange(u, n) == u[1] = 0 /\ u[2] < n
ToIndex(u) == u[2]

\* a vector of n entries that were allocated and not yet written (-1)
Uninit(n) == [j \in 0..(n - 1) |-> 0 - 1]

\* ------------------------------------ values of the bandwidth selection
Given(c) == [kind |-> "given", num |-> c, den |-> 1]
\* line 186: sqrt of the rational q
Sqrt(q)  == [kind |-> "sqrt", num |-> q[1], den |-> q[2]]
NoDraw   == [row |-> 0 - 1, u |-> 0, accepted |-> FALSE]
NoMed    == <<0, 0>>

VARIABLES
    \* ---- RandomPCA::pca (Spec)
    pc,        \* position of the engine inside RandomPCA::pca
    X,         \* shape of the input matrix
    args,      \* arguments of the invocation
    transpose, \* the parameter transpose after line 150
    N,         \* local N
    stand,     \* which standardization ran
    Y, Yn,     \* shapes of the iterate and of the scratch buffer
    iter,      \* loop counter
    broke,     \* the loop was left by the break of line 229
    K, Q, B, Et,
    U, V, P, d, pve, trace,   \* result fields of the engine
    log,       \* stages executed by this invocation, in order
    \* ---- the loop of lines 210-230 (SpecLoop)
    lpc,       \* position inside the loop
    lmaxiter, ltol, ldo_orth,  \* parameters maxiter, tol, do_orth
    lY, lYn,   \* content of Y and Yn: [val, norm]
    liter,     \* loop counter
    diffs,     \* the values of diff computed so far
    \* ---- pca_small (SpecSmall)
    spc,       \* position inside pca_small
    smethod,   \* parameter method
    sB,        \* diagonal of the parameter B: entry j stands for B(j, j)
    BBT,       \* diagonal of B * B.transpose()
    eval,      \* eig.eigenvalues()
    evec,      \* eig.eigenvectors(): column j is the unit vector e_evec[j]
    sd,        \* parameter d
    sU,        \* parameter U, by columns like evec
    si, sk,    \* the unsigned counters i and k
    visited,   \* the values of i for which the loop body ran
    written,   \* the values of k the loop body wrote to
    \* ---- bandwidth selection and median_dist (SpecBand)
    bpc,       \* position inside lines 180-187 and median_dist
    bkernel,   \* parameter kernel of pca
    bX,        \* X, one column: bX[j] is X(j, 0)
    rbf_sample,\* parameter rbf_sample of pca
    sigma0,    \* parameter sigma of pca as the caller passed it
    sigma,     \* parameter sigma of pca (assigned on line 186)
    bn,        \* parameter n of median_dist
    X2,        \* the sample
    bi, bk,    \* the counters i and k of the sampling loop
    draw,      \* the last row scanned: [row, u, accepted]
    med        \* result of median_dist: <<numerator, denominator>>

locals    == <<X, args, transpose, N, stand, Y, Yn, iter, broke, K, Q, B, Et>>
results   == <<U, V, P, d, pve, trace>>
pcaVars   == <<pc, locals, results, log>>
loopVars  == <<lpc, lmaxiter, ltol, ldo_orth, lY, lYn, liter, diffs>>
smallVars == <<spc, smethod, sB, BBT, eval, evec, sd, sU, si, sk, visited, written>>
bandVars  == <<bpc, bkernel, bX, rbf_sample, sigma0, sigma, bn, X2, bi, bk, draw, med>>
vars      == <<pcaVars, loopVars, smallVars, bandVars>>

\* An argument is bound in args by the stage that first reads it.
NoArgs == [kernel |-> KERNEL_LINEAR, transpose |-> FALSE, ndim |-> 0,
           nextra |-> 0, maxiter |-> 0, do_orth |-> FALSE,
           method |-> METHOD_SVD, do_loadings |-> FALSE]
NoIter == [val |-> 0, norm |-> "raw"]

\* the engine after construction
InitPca ==
    /\ pc = "idle"
    /\ X = Empty /\ args = NoArgs /\ transpose = FALSE /\ N = 0
    /\ stand = "none"
    /\ Y = Empty /\ Yn = Empty /\ iter = 0 /\ broke = FALSE
    /\ K = Empty /\ Q = Empty /\ B = Empty /\ Et = Empty
    /\ U = Field(0, 0, "none") /\ V = Field(0, 0, "none")
    /\ P = Field(0, 0, "none")
    /\ d = [len |-> 0, gen |-> "none"] /\ pve = [len |-> 0, gen |-> "none"]
    /\ trace = "none"
    /\ log = <<>>

LoopOff ==
    /\ lpc = "off" /\ lmaxiter = 0 /\ ltol = 0 /\ ldo_orth = FALSE
    /\ lY = NoIter /\ lYn = NoIter /\ liter = 0 /\ diffs = <<>>

SmallOff ==
    /\ spc = "off" /\ smethod = METHOD_SVD /\ sB = <<>> /\ BBT = <<>>
    /\ eval = <<>> /\ evec = <<>> /\ sd = <<>> /\ sU = <<>>
    /\ si = ToUInt(0) /\ sk = ToUInt(0) /\ visited = <<>> /\ written = <<>>

BandOff ==
    /\ bpc = "off" /\ bkernel = KERNEL_LINEAR /\ bX = <<>> /\ rbf_sample = 0
    /\ sigma0 = Given(0) /\ sigma = Given(0) /\ bn = 0 /\ X2 = <<>>
    /\ bi = 0 /\ bk = 0 /\ draw = NoDraw /\ med = NoMed

\* ==================================================== RandomPCA::pca
\* the caller's flag is used as passed
ForceTranspose_Kept(kernel, tr) == tr

\* lines 148-153
ForceTranspose(kernel, tr) == IF kernel # KERNEL_LINEAR THEN FALSE ELSE tr

\* lines 158-169: the standardization that runs
Standardize(tr, stand_method) ==
    IF tr
    THEN IF stand_method # STANDARDIZE_NONE THEN "standardize_transpose" ELSE "none"
    ELSE IF stand_method # STANDARDIZE_NONE THEN "standardize" ELSE "none"

\* lines 162, 168
SampleCount(tr, x) == IF tr THEN x.cols ELSE x.rows

\* lines 141-169: entry of pca up to the choice of N
Call ==
    /\ pc = "idle"
    /\ \E r \in 2..MaxRows, c \in 2..MaxCols, kern \in Kernels,
          tr \in BOOLEAN, sm \in StandMethods,
          nd \in 1..MaxNdim, ne \in 0..MaxExtra :
         /\ X' = Mat(r, c)
         /\ args' = [NoArgs EXCEPT !.kernel = kern, !.transpose = tr,
                                   !.ndim = nd, !.nextra = ne]
         /\ transpose' = ForceTranspose(kern, tr)
         /\ stand' = Standardize(transpose', sm)
         /\ N' = SampleCount(transpose', X')
    /\ U' = Age(U) /\ V' = Age(V) /\ P' = Age(P)
    /\ d' = Age(d) /\ pve' = Age(pve)
    /\ trace' = IF trace = "cur" THEN "old" ELSE trace
    /\ log' = <<>>
    /\ pc' = "sketch"
    /\ UNCHANGED <<Y, Yn, iter, broke, K, Q, B, Et>>
    /\ UNCHANGED <<loopVars, smallVars, bandVars>>

\* lines 171-174: R = make_gaussian(X.cols(), total_dim, seed); Y = X * R
Sketch ==
    /\ pc = "sketch"
    /\ LET total_dim == args.ndim + args.nextra
           R == Mat(X.cols, total_dim)
       IN Y' = Mul(X, R)
    /\ log' = Append(log, "sketch")
    /\ pc' = "normalize"
    /\ UNCHANGED <<X, args, transpose, N, stand, Yn, iter, broke, K, Q, B, Et>>
    /\ UNCHANGED results
    /\ UNCHANGED <<loopVars, smallVars, bandVars>>

\* lines 21-29: the columns are rescaled in place, the shape stays
NormalizeShape(M) == Mat(M.rows, M.cols)

\* line 175
Normalize ==
    /\ pc = "normalize"
    /\ Y' = NormalizeShape(Y)
    /\ log' = Append(log, "normalize")
    /\ pc' = "kernel"
    /\ UNCHANGED <<X, args, transpose, N, stand, Yn, iter, broke, K, Q, B, Et>>
    /\ UNCHANGED results
    /\ UNCHANGED <<loopVars, smallVars, bandVars>>

\* lines 120-139 and line 195: both kernels are X.rows() x X.rows()
KernelShape(kernel, x) ==
    IF kernel = KERNEL_RBF THEN Mat(x.rows, x.rows) ELSE Mul(x, Transpose(x))

\* lines 179-210: kernel, trace, and the initialisation of the loop
Kernel ==
    /\ pc = "kernel"
    /\ K' = KernelShape(args.kernel, X)
    /\ trace' = "cur"
    /\ \E mi \in 0..MaxIter, o \in BOOLEAN :
         args' = [args EXCEPT !.maxiter = mi, !.do_orth = o]
    /\ iter' = 0
    /\ log' = Append(log, "kernel")
    /\ pc' = "loop"
    /\ UNCHANGED <<X, transpose, N, stand, Y, Yn, broke, Q, B, Et>>
    /\ UNCHANGED <<U, V, P, d, pve>>
    /\ UNCHANGED <<loopVars, smallVars, bandVars>>

\* one pass too many
LoopContinues_OffByOne(i, maxiter) == i <= maxiter

\* line 210: the loop condition
LoopContinues(i, maxiter) == i < maxiter

\* lines 213-223: shape of Yn = K * Y after orthogonalisation
\* (householderQ() * Identity(Yn.rows(), Yn.cols())) or normalisation
NextIterateShape(k, y, do_orth) ==
    LET KY == Mul(k, y)
    IN IF do_orth THEN Mul(Mat(KY.rows, KY.rows), Mat(KY.rows, KY.cols))
                  ELSE NormalizeShape(KY)

\* lines 210-230: one pass through the loop body; converged is the outcome
\* of diff < tol
LoopIter ==
    /\ pc = "loop"
    /\ LoopContinues(iter, args.maxiter)
    /\ \E converged \in BOOLEAN :
         /\ Yn' = NextIterateShape(K, Y, args.do_orth)
         /\ Y' = Yn'
         /\ IF converged
            THEN pc' = "qr" /\ iter' = iter /\ broke' = TRUE
            ELSE pc' = "loop" /\ iter' = iter + 1 /\ broke' = FALSE
    /\ log' = Append(log, "iter")
    /\ UNCHANGED <<X, args, transpose, N, stand, K, Q, B, Et>>
    /\ UNCHANGED results
    /\ UNCHANGED <<loopVars, smallVars, bandVars>>

\* an exhausted loop goes straight to the projection
LoopExit_SkipQR ==
    /\ pc = "loop"
    /\ ~LoopContinues(iter, args.maxiter)
    /\ pc' = "project"
    /\ UNCHANGED <<locals, results, log>>
    /\ UNCHANGED <<loopVars, smallVars, bandVars>>

\* line 210: the loop condition fails
LoopExit ==
    /\ pc = "loop"
    /\ ~LoopContinues(iter, args.maxiter)
    /\ pc' = "qr"
    /\ UNCHANGED <<locals, results, log>>
    /\ UNCHANGED <<loopVars, smallVars, bandVars>>

\* lines 233-236: thin Q factor of Y
QRStage ==
    /\ pc = "qr"
    /\ Q' = Mul(Mat(Y.rows, Y.rows), Mat(Y.rows, Y.cols))
    /\ log' = Append(log, "qr")
    /\ pc' = "project"
    /\ UNCHANGED <<X, args, transpose, N, stand, Y, Yn, iter, broke, K, B, Et>>
    /\ UNCHANGED results
    /\ UNCHANGED <<loopVars, smallVars, bandVars>>

\* the operands swapped
ProjectB_Swapped(q, x) == Mul(Transpose(x), q)

\* line 240
ProjectB(q, x) == Mul(Transpose(q), x)

Project ==
    /\ pc = "project"
    /\ B' = ProjectB(Q, X)
    /\ log' = Append(log, "project")
    /\ pc' = "small"
    /\ UNCHANGED <<X, args, transpose, N, stand, Y, Yn, iter, broke, K, Q, Et>>
    /\ UNCHANGED results
    /\ UNCHANGED <<loopVars, smallVars, bandVars>>

\* lines 31-65: shapes of U and d left by pca_small
SmallShape(b, method) ==
    IF method = METHOD_SVD
    THEN [U |-> Mat(b.rows, Min(b.rows, b.cols)), d |-> Min(b.rows, b.cols)]
    ELSE [U |-> Mat(b.rows, b.rows), d |-> b.rows]

\* lines 243-247
Small ==
    /\ pc = "small"
    /\ \E m \in Methods :
         /\ args' = [args EXCEPT !.method = m]
         /\ Et' = SmallShape(B, m).U
         /\ d' = [len |-> SmallShape(B, m).d, gen |-> "cur"]
    /\ log' = Append(log, "small")
    /\ pc' = "assemble"
    /\ UNCHANGED <<X, transpose, N, stand, Y, Yn, iter, broke, K, Q, B>>
    /\ UNCHANGED <<U, V, P, pve, trace>>
    /\ UNCHANGED <<loopVars, smallVars, bandVars>>

\* the oversampling columns are kept
Truncate_Kept(F, ndim) == F

\* lines 272-274: conservativeResize(NoChange, ndim)
Truncate(F, ndim) == [F EXCEPT !.cols = ndim]

\* lines 249-270: U, V and P before truncation
AssembleU(tr, q, et, x) ==
    IF tr THEN LET v == Mul(q, et)
                   p == Mul(Transpose(x), v)
                   Dinv == Mat(et.cols, et.cols)
                   u == Mul(p, Dinv)
               IN Field(u.rows, u.cols, "cur")
          ELSE LET u == Mul(q, et) IN Field(u.rows, u.cols, "cur")

AssembleP(tr, q, et, x) ==
    IF tr THEN LET v == Mul(q, et)
                   p == Mul(Transpose(x), v)
               IN Field(p.rows, p.cols, "cur")
          ELSE LET u == Mul(q, et)
                   p == Mul(u, Mat(et.cols, et.cols))
               IN Field(p.rows, p.cols, "cur")

\* V is left alone in the non-transposed branch
AssembleV_NoLoadings(tr, do_loadings, q, et, x, oldV) ==
    IF tr THEN LET v == Mul(q, et) IN Field(v.rows, v.cols, "cur")
    ELSE oldV

AssembleV(tr, do_loadings, q, et, x, oldV) ==
    IF tr THEN LET v == Mul(q, et) IN Field(v.rows, v.cols, "cur")
    ELSE IF do_loadings
         THEN LET u == Mul(q, et)
                  Dinv == Mat(et.cols, et.cols)
                  v == Mul(Mul(Transpose(x), u), Dinv)
              IN Field(v.rows, v.cols, "cur")
         ELSE oldV

\* lines 249-277
Assemble ==
    /\ pc = "assemble"
    /\ \E dl \in BOOLEAN :
         /\ args' = [args EXCEPT !.do_loadings = dl]
         /\ V' = Truncate(AssembleV(transpose, dl, Q, Et, X, V), args.ndim)
    /\ U' = Truncate(AssembleU(transpose, Q, Et, X), args.ndim)
    /\ P' = Truncate(AssembleP(transpose, Q, Et, X), args.ndim)
    /\ d' = [d EXCEPT !.len = args.ndim]
    /\ pve' = [len |-> d'.len, gen |-> "cur"]
    /\ log' = Append(log, "assemble")
    /\ pc' = "done"
    /\ UNCHANGED <<X, transpose, N, stand, Y, Yn, iter, broke, K, Q, B, Et>>
    /\ UNCHANGED trace
    /\ UNCHANGED <<loopVars, smallVars, bandVars>>

\* line 277: the locals go out of scope
Return ==
    /\ pc = "done"
    /\ pc' = "idle"
    /\ X' = Empty /\ args' = NoArgs /\ transpose' = FALSE /\ N' = 0
    /\ stand' = "none"
    /\ Y' = Empty /\ Yn' = Empty /\ iter' = 0 /\ broke' = FALSE
    /\ K' = Empty /\ Q' = Empty /\ B' = Empty /\ Et' = Empty
    /\ log' = <<>>
    /\ UNCHANGED results
    /\ UNCHANGED <<loopVars, smallVars, bandVars>>

Next ==
    \/ Call \/ Sketch \/ Normalize \/ Kernel \/ LoopIter \/ LoopExit
    \/ QRStage \/ Project \/ Small \/ Assemble \/ Return

Init == InitPca /\ LoopOff /\ SmallOff /\ BandOff

Spec == Init /\ [][Next]_vars

\* ---------------------------------------------------- properties of pca
\* C3: after pca returns U, V and P have exactly ndim columns and d and pve
\* exactly ndim entries, whatever nextra, the orientation and do_loadings.
C3_Truncated ==
    pc = "done" =>
       /\ U.cols = args.ndim /\ V.cols = args.ndim /\ P.cols = args.ndim
       /\ d.len = args.ndim /\ pve.len = args.ndim

C3_Witness ==
    /\ pc = "done" /\ args.nextra > 0 /\ Et.cols > args.ndim
    /\ U.cols = args.ndim /\ ~transpose /\ ~args.do_loadings

\* C4 as stated: every invocation overwrites all of U, V, P, d, pve, trace.
C4_AllOverwritten ==
    pc = "done" =>
       /\ U.gen = "cur" /\ V.gen = "cur" /\ P.gen = "cur"
       /\ d.gen = "cur" /\ pve.gen = "cur" /\ trace = "cur"

\* C4 (amended): every invocation overwrites U, P, d, pve and trace; V is
\* overwritten exactly when the invocation runs transposed or with
\* do_loadings, and otherwise keeps the content it had before the
\* invocation.
C4_OverwrittenButV ==
    pc = "done" =>
       /\ U.gen = "cur" /\ P.gen = "cur"
       /\ d.gen = "cur" /\ pve.gen = "cur" /\ trace = "cur"
       /\ (V.gen = "cur") <=> (transpose \/ args.do_loadings)

C4_Witness ==
    /\ pc = "done" /\ V.gen = "old" /\ U.gen = "cur" /\ P.gen = "cur"
    /\ ~transpose /\ ~args.do_loadings

\* C6: with a kernel other than KERNEL_LINEAR transpose is false whatever
\* the caller passed: N = X.rows(), standardize_transpose does not run, and
\* the result is assembled by the non-transposed branch.
C6_NoTransposeForKernel ==
    (pc # "idle" /\ args.kernel # KERNEL_LINEAR) =>
       /\ ~transpose
       /\ N = X.rows
       /\ stand # "standardize_transpose"
       /\ pc = "done" =>
             /\ U.rows = Q.rows /\ P.rows = Q.rows
             /\ (V.gen = "cur") <=> args.do_loadings

C6_Witness ==
    /\ pc = "done" /\ args.kernel = KERNEL_RBF /\ args.transpose
    /\ X.rows # X.cols /\ stand = "standardize" /\ N = X.rows

Repeat(x, n) == [j \in 1..n |-> x]
ExpectedLog(n) ==
    <<"sketch", "normalize", "kernel">> \o Repeat("iter", n)
       \o <<"qr", "project", "small", "assemble">>
IsPrefix(a, b) == Len(a) <= Len(b) /\ \A j \in 1..Len(a) : a[j] = b[j]
Count(a, x) == Cardinality({j \in 1..Len(a) : a[j] = x})
\* passes through the loop body once the loop is left
Passes == IF broke THEN iter + 1 ELSE iter

\* C7: the QR stage runs exactly once per invocation, after the loop and
\* before the projection, however the loop ended; the stages run in the
\* order sketch, normalize, kernel, loop, QR, projection, small
\* decomposition, assembly.
C7_StageOrder ==
    /\ pc \in {"sketch", "normalize", "kernel"} => IsPrefix(log, ExpectedLog(0))
    /\ pc = "loop" => log = SubSeq(ExpectedLog(iter), 1, 3 + iter)
    /\ pc \in {"qr", "project", "small", "assemble", "done"} =>
          /\ IsPrefix(log, ExpectedLog(Passes))
          /\ Len(log) >= 3 + Passes
    /\ pc \in {"project", "small", "assemble", "done"} => Count(log, "qr") = 1
    /\ pc = "done" => log = ExpectedLog(Passes)

C7_Witness ==
    /\ pc = "done" /\ broke /\ Passes < args.maxiter
    /\ Count(log, "qr") = 1

\* C8 as stated: B is (ndim+nextra) x P, or P x (ndim+nextra) in transposed
\* mode, P the number of features.
Features == IF transpose THEN X.rows ELSE X.cols
C8_ShapeAsStated ==
    pc \in {"small", "assemble", "done"} =>
       B = IF transpose THEN Mat(Features, args.ndim + args.nextra)
                        ELSE Mat(args.ndim + args.nextra, Features)

\* C8 (amended): B is (ndim+nextra) x X.cols() in both modes, that is
\* (ndim+nextra) x P in non-transposed mode and (ndim+nextra) x N in
\* transposed mode, N the number of samples used in the 1/(N-1) scaling.
C8_Shape ==
    pc \in {"small", "assemble", "done"} =>
       B = Mat(args.ndim + args.nextra, IF transpose THEN N ELSE Features)

C8_Witness ==
    /\ pc = "small" /\ transpose /\ X.rows # X.cols
    /\ B = Mat(args.ndim + args.nextra, N)

\* ====================================== the loop of pca, lines 210-230
InitLoop ==
    /\ InitPca /\ SmallOff /\ BandOff
    /\ lpc = "loop"
    /\ lmaxiter \in 0..MaxIter
    /\ ltol \in 0..MaxTol
    /\ ldo_orth \in BOOLEAN
    /\ \E v \in 0..MaxVal : lY = [val |-> v, norm |-> "unit"]
    /\ lYn = NoIter
    /\ liter = 0
    /\ diffs = <<>>

\* lines 21-29: every column scaled to unit l2 norm; the abstract value
\* (the directions of the columns) is kept
normalize(M) == [M EXCEPT !.norm = "unit"]

\* lines 213-223: Yn = K * Y, then orthogonalised or normalised; v is the
\* value the library computes for K * Y
NextIterate(do_orth, v) ==
    LET KY == [val |-> v, norm |-> "raw"]
    IN IF do_orth THEN [KY EXCEPT !.norm = "orth"] ELSE normalize(KY)

\* line 225: mean squared difference, up to the factor 1 / Y.size()
Diff(y, yn) == (y.val - yn.val) * (y.val - yn.val)

\* lines 210-230: one pass through the loop body
LoopBody ==
    /\ lpc = "loop"
    /\ LoopContinues(liter, lmaxiter)
    /\ \E v \in 0..MaxVal :
         /\ lYn' = NextIterate(ldo_orth, v)
         /\ diffs' = Append(diffs, Diff(lY, lYn'))
         /\ lY' = lYn'
         /\ IF Diff(lY, lYn') < ltol
            THEN lpc' = "qr" /\ liter' = liter
            ELSE lpc' = "loop" /\ liter' = liter + 1
    /\ UNCHANGED <<lmaxiter, ltol, ldo_orth>>
    /\ UNCHANGED <<pcaVars, smallVars, bandVars>>

\* line 210: the loop condition fails
LoopDone ==
    /\ lpc = "loop"
    /\ ~LoopContinues(liter, lmaxiter)
    /\ lpc' = "qr"
    /\ UNCHANGED <<lmaxiter, ltol, ldo_orth, lY, lYn, liter, diffs>>
    /\ UNCHANGED <<pcaVars, smallVars, bandVars>>

NextLoop == LoopBody \/ LoopDone

SpecLoop == InitLoop /\ [][NextLoop]_vars

\* pca is a blocking sequence of statements: a statement that can run, runs
FairLoop == SpecLoop /\ WF_vars(NextLoop)

C1_Bounded ==
    /\ lpc = "loop" =>
          /\ liter <= lmaxiter
          /\ Len(diffs) = liter
          /\ \A j \in 1..Len(diffs) : ~(diffs[j] < ltol)
    /\ lpc = "qr" =>
          /\ Len(diffs) <= lmaxiter
          /\ \A j \in 1..(Len(diffs) - 1) : ~(diffs[j] < ltol)
          /\ Len(diffs) < lmaxiter =>
                Len(diffs) >= 1 /\ diffs[Len(diffs)] < ltol
          /\ Len(diffs) >= 1 => lY = lYn

\* C1: the subspace-iteration loop runs at most maxiter iterations and
\* terminates; it stops after the first iteration whose diff is below tol
\* or after maxiter iterations, whichever comes first; when it ran at least
\* once, Y at loop exit is the Yn of the last iteration.
C1_LoopTerminates == [](C1_Bounded) /\ ((lpc = "loop") ~> (lpc = "qr"))

C1_Witness ==
    /\ lpc = "qr" /\ lmaxiter >= 2 /\ Len(diffs) = 1
    /\ diffs[1] < ltol /\ lY = lYn

\* ===================================================== pca_small, 31-65
Size == Cardinality(DOMAIN sB)
Perms(n) == {p \in [0..(n - 1) -> 0..(n - 1)] :
                \A a, b \in 0..(n - 1) : a # b => p[a] # p[b]}

InitSmall ==
    /\ InitPca /\ LoopOff /\ BandOff
    /\ spc = "enter"
    /\ smethod \in Methods
    /\ \E s \in 0..MaxSize : sB \in [0..(s - 1) -> 0..MaxB]
    /\ BBT = <<>> /\ eval = <<>> /\ evec = <<>> /\ sd = <<>> /\ sU = <<>>
    /\ si = ToUInt(0) /\ sk = ToUInt(0) /\ visited = <<>> /\ written = <<>>

\* lines 33-41: JacobiSVD returns the singular values in decreasing order
SmallSVD ==
    /\ spc = "enter" /\ smethod = METHOD_SVD
    /\ \E p \in Perms(Size) :
         /\ \A a, b \in 0..(Size - 1) : a < b => sB[p[a]] >= sB[p[b]]
         /\ sU' = p
         /\ sd' = [j \in 0..(Size - 1) |-> sB[p[j]] * sB[p[j]]]
    /\ spc' = "done"
    /\ UNCHANGED <<smethod, sB, BBT, eval, evec, si, sk, visited, written>>
    /\ UNCHANGED <<pcaVars, loopVars, bandVars>>

\* line 57: the initial value of i, d.size() - 1 converted to unsigned int
FirstIndex(size) == ToUInt(size - 1)

\* lines 42-57: SelfAdjointEigenSolver returns the eigenvalues in increasing
\* order, eigenvector j in column j
EigenDecompose ==
    /\ spc = "enter" /\ smethod = METHOD_EIGEN
    /\ BBT' = [j \in 0..(Size - 1) |-> sB[j] * sB[j]]
    /\ \E p \in Perms(Size) :
         /\ \A a, b \in 0..(Size - 1) : a < b => BBT'[p[a]] <= BBT'[p[b]]
         /\ evec' = p
         /\ eval' = [j \in 0..(Size - 1) |-> BBT'[p[j]]]
    /\ sd' = Uninit(Size)
    /\ sU' = Uninit(Size)
    /\ sk' = ToUInt(0)
    /\ si' = FirstIndex(Size)
    /\ spc' = "reverse"
    /\ UNCHANGED <<smethod, sB, visited, written>>
    /\ UNCHANGED <<pcaVars, loopVars, bandVars>>

\* the countdown stops at 0 instead of after it
ReverseContinues_StopAtZero(i) == i # ToUInt(0)

\* line 57: i != -1, the int -1 converted to unsigned int
ReverseContinues(i) == i # ToUInt(-1)

\* the eigenvectors are not permuted with the eigenvalues
ReverseWrite_Unpaired(dv, Uv, k, i, ev, evc) ==
    [d |-> [dv EXCEPT ![k] = ev[i]], U |-> [Uv EXCEPT ![k] = evc[k]]]

\* lines 60-61
ReverseWrite(dv, Uv, k, i, ev, evc) ==
    [d |-> [dv EXCEPT ![k] = ev[i]], U |-> [Uv EXCEPT ![k] = evc[i]]]

\* lines 57-63: one pass through the loop body; an index outside the
\* vectors is undefined behaviour
ReverseStep ==
    /\ spc = "reverse"
    /\ ReverseContinues(si)
    /\ visited' = Append(visited, si)
    /\ written' = Append(written, sk)
    /\ IF InRange(si, Size) /\ InRange(sk, Size)
       THEN /\ sd' = ReverseWrite(sd, sU, ToIndex(sk), ToIndex(si), eval, evec).d
            /\ sU' = ReverseWrite(sd, sU, ToIndex(sk), ToIndex(si), eval, evec).U
            /\ sk' = UInc(sk)
            /\ si' = UDec(si)
            /\ spc' = "reverse"
       ELSE /\ spc' = "ub"
            /\ UNCHANGED <<sd, sU, sk, si>>
    /\ UNCHANGED <<smethod, sB, BBT, eval, evec>>
    /\ UNCHANGED <<pcaVars, loopVars, bandVars>>

\* line 57: the loop condition fails
ReverseExit ==
    /\ spc = "reverse"
    /\ ~ReverseContinues(si)
    /\ spc' = "done"
    /\ UNCHANGED <<smethod, sB, BBT, eval, evec, sd, sU, si, sk, visited, written>>
    /\ UNCHANGED <<pcaVars, loopVars, bandVars>>

NextSmall == SmallSVD \/ EigenDecompose \/ ReverseStep \/ ReverseExit

SpecSmall == InitSmall /\ [][NextSmall]_vars
FairSmall == SpecSmall /\ WF_vars(NextSmall)

\* C2: with METHOD_EIGEN, d(k) = eval(s-1-k) and U.col(k) = evec.col(s-1-k)
\* for every k, so d is non-increasing and every eigenvector stays with its
\* own eigenvalue.
C2_Reversed ==
    (spc = "done" /\ smethod = METHOD_EIGEN) =>
       /\ DOMAIN sd = 0..(Size - 1) /\ DOMAIN sU = 0..(Size - 1)
       /\ \A k \in 0..(Size - 1) :
             /\ sd[k] = eval[Size - 1 - k]
             /\ sU[k] = evec[Size - 1 - k]
             /\ BBT[sU[k]] = sd[k]
       /\ \A k \in 0..(Size - 2) : sd[k] >= sd[k + 1]

C2_Witness ==
    /\ spc = "done" /\ smethod = METHOD_EIGEN /\ Size >= 3
    /\ \A k \in 0..(Size - 2) : eval[k] < eval[k + 1]
    /\ evec[0] # 0
    /\ sd[0] = eval[Size - 1] /\ sU[0] = evec[Size - 1]

C9_Indices ==
    smethod = METHOD_EIGEN =>
       /\ spc # "ub"
       /\ Len(visited) <= Size
       /\ \A j \in 1..Len(visited) :
             /\ visited[j] = ToUInt(Size - j)
             /\ written[j] = ToUInt(j - 1)
             /\ InRange(visited[j], Size) /\ InRange(written[j], Size)
       /\ spc = "reverse" => sk = ToUInt(Len(visited))
       /\ spc = "done" => Len(visited) = Size

\* C9: the reversal loop with its unsigned counter visits size-1, ..., 0
\* each exactly once and then terminates, for every size from 0 up; the
\* write index k goes 0, ..., size-1 and stays inside d and U.
C9_Countdown == [](C9_Indices) /\ ((spc = "reverse") ~> (spc = "done"))

C9_Witness ==
    /\ spc = "done" /\ smethod = METHOD_EIGEN /\ Size >= 3
    /\ Len(visited) = Size /\ si = ToUInt(-1)
    /\ visited[Size] = ToUInt(0)

\* ================================ bandwidth selection, 180-187 and 70-118
InitBand ==
    /\ InitPca /\ LoopOff /\ SmallOff
    /\ bpc = "enter"
    /\ bkernel \in {KERNEL_LINEAR, KERNEL_RBF}
    /\ \E r \in 1..MaxBandRows : bX \in [0..(r - 1) -> 0..MaxCoord]
    /\ rbf_sample \in 1..MaxSample
    /\ sigma0 \in {Given(c) : c \in 0..MaxSigma}
    /\ sigma = sigma0
    /\ bn = 0 /\ X2 = <<>> /\ bi = 0 /\ bk = 0 /\ draw = NoDraw /\ med = NoMed

Rows(x) == Cardinality(DOMAIN x)

\* lines 180-182: no estimate unless the kernel is RBF and sigma == 0
BandSkip ==
    /\ bpc = "enter"
    /\ ~(bkernel = KERNEL_RBF /\ sigma = Given(0))
    /\ bpc' = "done"
    /\ UNCHANGED <<bkernel, bX, rbf_sample, sigma0, sigma, bn, X2, bi, bk, draw, med>>
    /\ UNCHANGED <<pcaVars, loopVars, smallVars>>

\* line 184: fminl(rbf_sample, N), N = X.rows() as the kernel is not linear
MedSamples(sample, x) == Min(sample, Rows(x))

\* lines 184-185 and 70-97 up to the sampling loop
MedianEnter ==
    /\ bpc = "enter"
    /\ bkernel = KERNEL_RBF /\ sigma = Given(0)
    /\ bn' = MedSamples(rbf_sample, bX)
    /\ IF bn' < Rows(bX)
       THEN X2' = Uninit(bn') /\ bpc' = "scan"
       ELSE X2' = bX /\ bpc' = "dist"
    /\ bi' = 0 /\ bk' = 0
    /\ UNCHANGED <<bkernel, bX, rbf_sample, sigma0, sigma, draw, med>>
    /\ UNCHANGED <<pcaVars, loopVars, smallVars>>

\* lines 75 and 88: dist(rng) < prop with prop = (double)X.rows() / n
Accepts(u, rows, n) == u * n < rows * DrawDen

\* lines 86-94: the loop condition and one pass through the body
Scan ==
    /\ bpc = "scan"
    /\ IF bi < Rows(bX)
       THEN \E u \in 0..(DrawDen - 1) :
              IF Accepts(u, Rows(bX), bn)
              THEN /\ X2' = [X2 EXCEPT ![bk] = bX[bi]]
                   /\ bk' = bk + 1
                   /\ draw' = [row |-> bi, u |-> u, accepted |-> TRUE]
                   /\ IF bk' = bn THEN bpc' = "dist" /\ bi' = bi
                                  ELSE bpc' = "scan" /\ bi' = bi + 1
              ELSE /\ draw' = [row |-> bi, u |-> u, accepted |-> FALSE]
                   /\ bi' = bi + 1 /\ bpc' = "scan"
                   /\ UNCHANGED <<X2, bk>>
       ELSE bpc' = "dist" /\ UNCHANGED <<X2, bi, bk, draw>>
    /\ UNCHANGED <<bkernel, bX, rbf_sample, sigma0, sigma, bn, med>>
    /\ UNCHANGED <<pcaVars, loopVars, smallVars>>

\* lines 99-105: D = R + R^T - 2 X2 X2^T, laid out column by column
PairDist(x2, n) ==
    LET norms == [j \in 0..(n - 1) |-> x2[j] * x2[j]]
        D(r, c) == norms[r] + norms[c] - 2 * x2[r] * x2[c]
    IN [j \in 1..(n * n) |-> D((j - 1) % n, (j - 1) \div n)]

\* line 106: std::sort
RECURSIVE Insert(_, _)
Insert(x, sq) ==
    IF sq = <<>> THEN <<x>>
    ELSE IF x <= Head(sq) THEN <<x>> \o sq
    ELSE <<Head(sq)>> \o Insert(x, Tail(sq))
RECURSIVE SortAsc(_)
SortAsc(sq) == IF sq = <<>> THEN <<>> ELSE Insert(Head(sq), SortAsc(Tail(sq)))

\* the upper middle value for every m
MedianOfSorted_Upper(dd, m) == <<dd[m \div 2 + 1], 1>>

\* lines 109-112; dd[j + 1] is d[j]
MedianOfSorted(dd, m) ==
    IF m % 2 = 0 THEN <<dd[m \div 2 - 1 + 1] + dd[m \div 2 + 1], 2>>
                 ELSE <<dd[m \div 2 + 1], 1>>

\* rows of the sample that were never written hold any value
Fillings(x2) ==
    {f \in [DOMAIN x2 -> 0..MaxCoord] : \A j \in DOMAIN x2 : x2[j] >= 0 => f[j] = x2[j]}

\* lines 99-117 and 186
MedianFinish ==
    /\ bpc = "dist"
    /\ \E f \in Fillings(X2) :
         /\ X2' = f
         /\ med' = MedianOfSorted(SortAsc(PairDist(f, bn)), bn * bn)
    /\ sigma' = Sqrt(med')
    /\ bpc' = "done"
    /\ UNCHANGED <<bkernel, bX, rbf_sample, sigma0, bn, bi, bk, draw>>
    /\ UNCHANGED <<pcaVars, loopVars, smallVars>>

NextBand == BandSkip \/ MedianEnter \/ Scan \/ MedianFinish

SpecBand == InitBand /\ [][NextBand]_vars

\* C5: a scanned row is accepted exactly when the draw is below n/N_rows.
C5_Bernoulli ==
    (bpc \in {"scan", "dist"} /\ draw.row >= 0) =>
       (draw.accepted <=> draw.u * Rows(bX) < bn * DrawDen)

SqDist(a, b) == (a - b) * (a - b)
PairSet == (0..(bn - 1)) \X (0..(bn - 1))
Below(v)   == Cardinality({q \in PairSet : SqDist(X2[q[1]], X2[q[2]]) < v})
AtMost(v)  == Cardinality({q \in PairSet : SqDist(X2[q[1]], X2[q[2]]) <= v})
\* the k-th smallest of the pairwise squared distances, k = 1 the smallest
KthSmallest(k) ==
    CHOOSE v \in {SqDist(X2[q[1]], X2[q[2]]) : q \in PairSet} :
        Below(v) < k /\ k <= AtMost(v)
\* every row of the sample is a row of X, in the order of X
IsSample ==
    \E g \in [0..(bn - 1) -> 0..(Rows(bX) - 1)] :
        /\ \A a, b \in 0..(bn - 1) : a < b => g[a] < g[b]
        /\ \A a \in 0..(bn - 1) : X2[a] = bX[g[a]]

====
